---- MODULE Spec2Model ----
(***************************************************************************)
(* State-machine model of monitorWorkflow (run-test/src/monitorWorkflow.js,*)
(* the SSE workflow monitor with reconnection, backoff, deadline timer and *)
(* REST fallback).  Time is in milliseconds.  Every callback the program   *)
(* registers (onopen, onerror, the event listeners, the two kinds of       *)
(* timers, the .then of a fallback request) is one action.                 *)
(*                                                                         *)
(* Transport assumption (eventsource package): a closed EventSource        *)
(* delivers no further signal; an SSE event named "error" is dispatched to *)
(* the onerror property first and to the addEventListener('error')         *)
(* listener second, because onerror is registered first.                   *)
(*                                                                         *)
(* The module also models the single-test monitor monitorTest              *)
(* (run-test/src/monitorTest.js, variable mt) and the action's entry point *)
(* run() (run-test/src/main.js, variable run), and run() of the           *)
(* upload-build action (variable upload).                                  *)
(***************************************************************************)
EXTENDS Integers, Sequences, FiniteSets, TLC

\* ---------------------------------------------------------------- bounds
ShortTimeoutSec == 5
LongTimeoutSec == 152
SlackMs == 1000
MaxOpens == 1
MaxFetches == 1

\* ------------------------------------------------------ program constants
MAX_RECONNECT_ATTEMPTS == 10
MAX_BACKOFF_MS == 30000
INITIAL_BACKOFF_MS == 1000

VARIABLES
  now,                    \* Date.now() - startTime
  timeoutMs,              \* timeoutSeconds * 1000
  started,                \* FALSE until the executor reached createConnection()
  reconnectAttempts,
  currentEventSource,     \* 0 is null, otherwise the id of an EventSource
  isIntentionallyClosed,
  finalStatus,            \* "null" or the status string
  workflowStarted,
  reconnectTimeoutHandle, \* 0 is null, otherwise the seq of a backoff timer
  sources,                \* EventSource id -> "connecting" | "open" | "closed"
  connectionTimeouts,     \* armed connectionTimeout timers, [conn, at]
  backoffTimers,          \* armed reconnect timers, [seq, at, delay]
  backoffLog,             \* history: delay of every reconnect timer armed
  fetches,                \* fetchFinalWorkflowResults calls in flight
  fetchCount,             \* history: number of such calls issued
  giveUpFetches,          \* history: calls issued by the give-up branch
  settlements,            \* history: every resolve(...) / reject(...) call
  outputs,                \* core.setOutput values
  opens,                  \* history: number of onopen signals
  dispatch,               \* conn whose 'error' listener has still to run, or 0
  activeTests,            \* keys of the activeTests map (child task ids)
  testsPassed,
  testsFailed,
  seen,                   \* history: child id -> child events delivered
  foreign,                \* history: events of other jobs delivered
  dropped,                \* history: event types whose payload did not parse
  mt,                     \* the closure state of monitorTest
  run,                    \* the state of run() of main.js
  upload,                 \* the state of run() of the upload-build action
  resolver,               \* one call of fetchFinalWorkflowResults
  ws                      \* the closure state of waitForStart

vars == <<now, timeoutMs, started, reconnectAttempts, currentEventSource,
          isIntentionallyClosed, finalStatus, workflowStarted,
          reconnectTimeoutHandle, sources, connectionTimeouts, backoffTimers,
          backoffLog, fetches, fetchCount, giveUpFetches, settlements,
          outputs, opens, dispatch, activeTests, testsPassed, testsFailed,
          seen, foreign, dropped, mt, run, upload, resolver, ws>>

\* the programs around monitorWorkflow
outside == <<mt, run, upload, resolver, ws>>

\* what the connection, timer and fallback callbacks never touch
others ==
  <<activeTests, testsPassed, testsFailed, seen, foreign, dropped, outside>>

\* ---------------------------------------------------------------- helpers
Min(a, b) == IF a < b THEN a ELSE b

Max(a, b) == IF a > b THEN a ELSE b

RECURSIVE Pow2(_)
Pow2(n) == IF n = 0 THEN 1 ELSE 2 * Pow2(n - 1)

TimeoutChoices == {0, ShortTimeoutSec, LongTimeoutSec}

\* task ids of the child tests the stream reports
Children == {"A", "B"}

\* the monitored task (taskId of monitorWorkflow) and a task of another job
taskId == "T"

OtherTask == "U"

\* a child test of another job
OtherChild == "X"

TestIds == Children \cup {OtherChild}

\* test.parent_workflow_task_id of the test_started payload of child k
ParentOf(k) == IF k \in Children THEN taskId ELSE OtherTask

\* the listeners' filter: data.task_id === taskId
TaskMatchesAny(tid) == TRUE

TaskMatches(tid) == tid = taskId

\* status strings the REST endpoint may answer with ("" is a missing status)
Statuses == {"completed", "SUCCESS", "Failed", "error", "timeout",
             "Cancelled", "running", ""}

NoAnswer == [status |-> "none", success |-> FALSE]

\* what fetchFinalWorkflowResults can return: null or {status, success, ...}
FetchResults == {NoAnswer} \cup [status : Statuses, success : BOOLEAN]

\* String.prototype.toLowerCase on the statuses above
ToLowerCaseIdentity(s) == s

ToLowerCase(s) ==
  CASE s = "SUCCESS" -> "success"
    [] s = "Failed" -> "failed"
    [] s = "Cancelled" -> "cancelled"
    [] OTHER -> s

calculateBackoffDelayUncapped(attempts) == INITIAL_BACKOFF_MS * Pow2(attempts)

calculateBackoffDelay(attempts) ==
  Min(MAX_BACKOFF_MS, INITIAL_BACKOFF_MS * Pow2(attempts))

\* isTimedOut(): Date.now() - startTime >= timeoutMs
isTimedOutNever == FALSE

isTimedOut == now >= timeoutMs

getRemainingTimeWhole == timeoutMs

getRemainingTime == Max(0, timeoutMs - now)

\* the check `reconnectAttempts >= MAX_RECONNECT_ATTEMPTS` of onerror
ReachedMaxAttemptsNever(attempts) == FALSE

ReachedMaxAttempts(attempts) == attempts >= MAX_RECONNECT_ATTEMPTS

\* EventSource.close() on source c (c = 0: nothing to close)
LeaveOpen(srcs, c) == srcs

CloseSource(srcs, c) ==
  [i \in DOMAIN srcs |-> IF i = c THEN "closed" ELSE srcs[i]]

\* clearTimeout(connectionTimeout) of the closure of connection c
ClearConnectionTimeout(cts, c) == {t \in cts : t.conn # c}

\* the timer part of cleanup(): clearTimeout(reconnectTimeoutHandle)
KeepBackoff(bts, handle) == bts

ClearBackoff(bts, handle) == {t \in bts : t.seq # handle}

\* the flag cleanup() sets
CleanupFlagUnset == isIntentionallyClosed

CleanupFlag == TRUE

Settle(kind, value, via, conn, answer) ==
  Append(settlements,
         [kind |-> kind, value |-> value, via |-> via, conn |-> conn,
          answer |-> answer, at |-> now, conns |-> Len(sources),
          backoffs |-> Len(backoffLog), waiting |-> backoffTimers # {}])

NewFetch(kind, conn) == [id |-> fetchCount + 1, kind |-> kind, conn |-> conn]

Live == {i \in DOMAIN sources : sources[i] # "closed"}

\* ------------------------------------------------------------------ state
InitFor(choices) ==
  /\ now = 0
  /\ timeoutMs \in {1000 * s : s \in choices}
  /\ started = FALSE
  /\ reconnectAttempts = 0
  /\ currentEventSource = 0
  /\ isIntentionallyClosed = FALSE
  /\ finalStatus = "null"
  /\ workflowStarted = FALSE
  /\ reconnectTimeoutHandle = 0
  /\ sources = <<>>
  /\ connectionTimeouts = {}
  /\ backoffTimers = {}
  /\ backoffLog = <<>>
  /\ fetches = {}
  /\ fetchCount = 0
  /\ giveUpFetches = 0
  /\ settlements = <<>>
  /\ outputs = [success |-> "unset", status |-> "unset", counts |-> "unset"]
  /\ opens = 0
  /\ dispatch = 0
  /\ activeTests = {}
  /\ testsPassed = 0
  /\ testsFailed = 0
  /\ seen = [k \in Children |-> <<>>]
  /\ foreign = [events |-> <<>>, errors |-> 0]
  /\ dropped = <<>>

\* monitorTest after its executor ran: the EventSource is connecting and
\* the timeout timer is armed
MtInit ==
  [now |-> 0, eventSource |-> "connecting", timeoutHandle |-> TRUE,
   finalStatus |-> "null", reportLink |-> "null", pending |-> {},
   progress |-> 0, settlements |-> <<>>]

\* the inputs of run(): REVYL_API_KEY set, test-id / workflow-id given, the
\* timeout input, what the POST answers and how the monitor ends
RunInputs ==
  [apiKey : BOOLEAN, testId : BOOLEAN, workflowId : BOOLEAN,
   timeoutSeconds : {ShortTimeoutSec, LongTimeoutSec},
   post : {"200", "500", "no task_id"},
   monitor : {"completed", "failed", "cancelled", "null", "reject"}]

\* run() before its first statement
RunInit(inputs) ==
  [pc |-> "validate", inputs |-> inputs, posted |-> FALSE, monitored |-> FALSE,
   finalStatus |-> "unset", task_id |-> "unset", success |-> "unset",
   setFailed |-> <<>>, thrown |-> <<>>]

DefaultRun ==
  RunInit([apiKey |-> TRUE, testId |-> FALSE, workflowId |-> TRUE,
           timeoutSeconds |-> ShortTimeoutSec, post |-> "200",
           monitor |-> "completed"])

\* the inputs of the upload-build action and what its requests answer:
\* required: build-var-id and version are supplied; first: the answer of
\* the from-url / upload-url POST
UploadInputs ==
  [apiKey : BOOLEAN, required : BOOLEAN, filePath : BOOLEAN,
   expoUrl : BOOLEAN, metadata : {"absent", "valid", "invalid"},
   expoHeaders : {"absent", "invalid"}, fileExists : BOOLEAN,
   first : {"200", "500", "incomplete"}, s3 : {"200", "403"},
   complete : {"200", "500"}]

\* upload-build's run() before its first statement
UploadInit(inputs) ==
  [pc |-> "validate", inputs |-> inputs, requests |-> 0,
   success |-> "unset", errorMessage |-> "unset", versionId |-> "unset",
   setFailed |-> <<>>, thrown |-> <<>>]

DefaultUpload ==
  UploadInit([apiKey |-> TRUE, required |-> TRUE, filePath |-> FALSE,
              expoUrl |-> TRUE, metadata |-> "absent",
              expoHeaders |-> "absent", fileExists |-> TRUE,
              first |-> "200", s3 |-> "200", complete |-> "200"])

\* ------------------------------------------- fetchFinalWorkflowResults
\* longest tests array of a response body
MaxTests == 2

\* a number field that is missing from the body (undefined)
Undefined == -1

\* status of one element of task.tests; "nullItem" is a null element
ItemStatuses == {"passed", "success", "failed", "error", "skipped", "nullItem"}

\* task.tests: missing, not an array, or an array of at most MaxTests items
TestsValues ==
  {[kind |-> k, items |-> <<>>] : k \in {"absent", "other"}} \cup
  {[kind |-> "array", items |-> q] :
     q \in UNION {[1..n -> ItemStatuses] : n \in 0..MaxTests}}

\* the object the status fields are read from
Tasks ==
  [status : {"completed", "running"}, success : BOOLEAN,
   total_tests : {Undefined, 3}, completed_tests : {Undefined, 1},
   tests : TestsValues]

NoTask ==
  [status |-> "none", success |-> FALSE, total_tests |-> Undefined,
   completed_tests |-> Undefined, tests |-> [kind |-> "absent", items |-> <<>>]]

\* the envelope fields of a body that carries the task under `data`
Envelope ==
  [status |-> "envelope", success |-> FALSE, total_tests |-> Undefined,
   completed_tests |-> Undefined, tests |-> [kind |-> "absent", items |-> <<>>]]

\* response bodies: readBody() rejects, JSON.parse throws, the JSON value
\* null, or an object with the task at the top level or under `data`
Bodies ==
  {[parse |-> k, data |-> NoTask, top |-> NoTask] :
     k \in {"readError", "syntaxError", "null"}} \cup
  {[parse |-> "object", data |-> NoTask, top |-> t] : t \in Tasks} \cup
  {[parse |-> "object", data |-> t, top |-> Envelope] : t \in Tasks}

\* what client.get(url) does: it rejects, or answers statusCode and body
Responses ==
  {[get |-> "rejects", statusCode |-> "none",
    body |-> [parse |-> "readError", data |-> NoTask, top |-> NoTask]]} \cup
  {[get |-> "ok", statusCode |-> c,
    body |-> [parse |-> "readError", data |-> NoTask, top |-> NoTask]] :
     c \in {"404", "500"}} \cup
  {[get |-> "ok", statusCode |-> "200", body |-> b] : b \in Bodies}

\* the return value null
Null ==
  [isNull |-> TRUE, status |-> "none", success |-> FALSE, total_tests |-> 0,
   completed_tests |-> 0, passed_tests |-> 0, failed_tests |-> 0,
   tests |-> [kind |-> "absent", items |-> <<>>]]

ResolverInit(response) ==
  [pc |-> "get", response |-> response, result |-> Null, threw |-> FALSE,
   warned |-> FALSE]

DefaultResolver ==
  ResolverInit([get |-> "rejects", statusCode |-> "none",
                body |-> [parse |-> "readError", data |-> NoTask,
                          top |-> NoTask]])

\* ------------------------------------------------------- waitForStart
\* the closure state of waitForStart (monitor.js) for a test or a workflow
WsInit(mode) ==
  [mode |-> mode, eventSource |-> "connecting", timeoutHandle |-> TRUE,
   now |-> 0, childTests |-> 0, workflowInfo |-> "null", totalTests |-> 0,
   seen |-> <<>>, settlements |-> <<>>]

DefaultWs == WsInit("test")

Init == InitFor(TimeoutChoices) /\ mt = MtInit /\ run = DefaultRun /\ upload = DefaultUpload /\ resolver = DefaultResolver /\ ws = DefaultWs

\* cleanup(), applied to the given sources / current source / backoff timers
Cleanup(srcs, cur, bts) ==
  /\ isIntentionallyClosed' = CleanupFlag
  /\ sources' = CloseSource(srcs, cur)
  /\ currentEventSource' = 0
  /\ backoffTimers' = ClearBackoff(bts, reconnectTimeoutHandle)
  /\ reconnectTimeoutHandle' = 0

\* createConnection(), with bts the reconnect timers armed when it is called
CreateConnection(bts) ==
  IF isIntentionallyClosed
  THEN /\ backoffTimers' = bts
       /\ UNCHANGED <<isIntentionallyClosed, sources, currentEventSource,
                      reconnectTimeoutHandle, connectionTimeouts, settlements>>
  ELSE IF isTimedOut
  THEN /\ Cleanup(sources, currentEventSource, bts)
       /\ settlements' = Settle("resolve", "null", "createConnection", 0, "none")
       /\ UNCHANGED connectionTimeouts
  ELSE /\ sources' = Append(sources, "connecting")
       /\ currentEventSource' = Len(sources) + 1
       /\ connectionTimeouts' = connectionTimeouts \cup
            {[conn |-> Len(sources) + 1, at |-> now + getRemainingTime]}
       /\ backoffTimers' = bts
       /\ UNCHANGED <<isIntentionallyClosed, reconnectTimeoutHandle, settlements>>

\* the executor's call of createConnection()
Start ==
  /\ ~started
  /\ started' = TRUE
  /\ CreateConnection(backoffTimers)
  /\ UNCHANGED <<now, timeoutMs, reconnectAttempts, finalStatus,
                 workflowStarted, backoffLog, fetches, fetchCount,
                 giveUpFetches, outputs, dispatch, opens, others>>

\* onopen: "Reset reconnection attempts on successful connection"
AttemptsAfterOpenKept(n) == n

AttemptsAfterOpen(n) == 0

\* eventSource.onopen of connection c
OnOpen(c) ==
  /\ dispatch = 0
  /\ c \in DOMAIN sources
  /\ sources[c] = "connecting"
  /\ opens < MaxOpens \/ timeoutMs # 1000 * LongTimeoutSec
  /\ opens' = opens + 1
  /\ sources' = [sources EXCEPT ![c] = "open"]
  /\ reconnectAttempts' = AttemptsAfterOpen(reconnectAttempts)
  /\ UNCHANGED <<now, timeoutMs, started, currentEventSource,
                 isIntentionallyClosed, finalStatus, workflowStarted,
                 reconnectTimeoutHandle, connectionTimeouts, backoffTimers,
                 backoffLog, fetches, fetchCount, giveUpFetches, settlements,
                 outputs, dispatch, others>>

\* body of eventSource.onerror of connection c
OnErrorHandler(c) ==
  IF isIntentionallyClosed \/ finalStatus # "null"
  THEN UNCHANGED <<reconnectAttempts, currentEventSource,
                   isIntentionallyClosed, reconnectTimeoutHandle, sources,
                   connectionTimeouts, backoffTimers, backoffLog, fetches,
                   fetchCount, giveUpFetches, settlements>>
  ELSE
    /\ reconnectAttempts' = reconnectAttempts + 1
    /\ IF ReachedMaxAttempts(reconnectAttempts + 1)
       THEN /\ connectionTimeouts' = ClearConnectionTimeout(connectionTimeouts, c)
            /\ Cleanup(CloseSource(sources, c), 0, backoffTimers)
            /\ fetches' = fetches \cup {NewFetch("giveup", c)}
            /\ fetchCount' = fetchCount + 1
            /\ giveUpFetches' = giveUpFetches + 1
            /\ UNCHANGED <<backoffLog, settlements>>
       ELSE IF isTimedOut
       THEN /\ connectionTimeouts' = ClearConnectionTimeout(connectionTimeouts, c)
            /\ Cleanup(CloseSource(sources, c), 0, backoffTimers)
            /\ settlements' = Settle("resolve", "null", "noTime", c, "none")
            /\ UNCHANGED <<backoffLog, fetches, fetchCount, giveUpFetches>>
       ELSE /\ sources' = CloseSource(sources, c)
            /\ currentEventSource' = 0
            /\ backoffTimers' = backoffTimers \cup
                 {[seq |-> Len(backoffLog) + 1,
                   at |-> now + calculateBackoffDelay(reconnectAttempts),
                   delay |-> calculateBackoffDelay(reconnectAttempts)]}
            /\ reconnectTimeoutHandle' = Len(backoffLog) + 1
            /\ backoffLog' = Append(backoffLog,
                                    calculateBackoffDelay(reconnectAttempts))
            /\ UNCHANGED <<isIntentionallyClosed, connectionTimeouts, fetches,
                           fetchCount, giveUpFetches, settlements>>

\* a transport error or close on connection c: onerror runs, and the 'error'
\* listener finds no JSON payload and does nothing
OnError(c) ==
  /\ dispatch = 0
  /\ c \in Live
  /\ OnErrorHandler(c)
  /\ UNCHANGED <<now, timeoutMs, started, finalStatus, workflowStarted,
                 outputs, dispatch, opens, others>>

\* a server-pushed SSE event named "error" with a JSON payload: onerror runs
\* now, the 'error' listener runs next
ErrorEvent(c) ==
  /\ dispatch = 0
  /\ c \in DOMAIN sources
  /\ sources[c] = "open"
  /\ OnErrorHandler(c)
  /\ dispatch' = c
  /\ UNCHANGED <<now, timeoutMs, started, finalStatus, workflowStarted,
                 outputs, opens, others>>

\* the job the JSON payload in dispatch is about
DispatchedTask == IF foreign.errors > 0 THEN OtherTask ELSE taskId

\* the 'error' listener's test: `if (data)`, whatever job the payload names
ErrorIsFatalScoped(tid) == TaskMatches(tid)

ErrorIsFatal(tid) == TRUE

\* the addEventListener('error') listener, for the JSON payload
ErrorListener ==
  /\ dispatch # 0
  /\ dispatch' = 0
  /\ IF ErrorIsFatal(DispatchedTask)
     THEN /\ connectionTimeouts' =
               ClearConnectionTimeout(connectionTimeouts, dispatch)
          /\ Cleanup(sources, currentEventSource, backoffTimers)
          /\ settlements' =
               Settle("reject", "SSE error", "errorEvent", dispatch, "none")
     ELSE UNCHANGED <<connectionTimeouts, isIntentionallyClosed, sources,
                      currentEventSource, backoffTimers,
                      reconnectTimeoutHandle, settlements>>
  /\ UNCHANGED <<now, timeoutMs, started, reconnectAttempts, finalStatus,
                 workflowStarted, backoffLog, fetches, fetchCount,
                 giveUpFetches, outputs, opens, others>>

\* the connectionTimeout callback of createConnection; timers due at the same
\* instant fire in the order they were armed
ConnectionTimeoutFire(t) ==
  /\ dispatch = 0
  /\ t \in connectionTimeouts
  /\ t.at <= now
  /\ \A u \in connectionTimeouts : u.at <= now => t.conn <= u.conn
  /\ connectionTimeouts' = connectionTimeouts \ {t}
  /\ IF finalStatus = "null" /\ ~isIntentionallyClosed
     THEN /\ Cleanup(sources, currentEventSource, backoffTimers)
          /\ settlements' = Settle("resolve", "null", "deadline", t.conn, "none")
     ELSE UNCHANGED <<isIntentionallyClosed, sources, currentEventSource,
                      backoffTimers, reconnectTimeoutHandle, settlements>>
  /\ UNCHANGED <<now, timeoutMs, started, reconnectAttempts, finalStatus,
                 workflowStarted, backoffLog, fetches, fetchCount,
                 giveUpFetches, outputs, dispatch, opens, others>>

\* the reconnect timer callback: createConnection()
ReconnectFire(t) ==
  /\ dispatch = 0
  /\ t \in backoffTimers
  /\ t.at <= now
  /\ CreateConnection(backoffTimers \ {t})
  /\ UNCHANGED <<now, timeoutMs, started, reconnectAttempts, finalStatus,
                 workflowStarted, backoffLog, fetches, fetchCount,
                 giveUpFetches, outputs, dispatch, opens, others>>

\* status a terminal workflow event stands for
TerminalEvents == {"workflow_completed", "workflow_failed", "workflow_cancelled"}

EventStatusSwapped(ev) ==
  CASE ev = "workflow_completed" -> "completed"
    [] ev = "workflow_failed" -> "completed"
    [] ev = "workflow_cancelled" -> "cancelled"

EventStatus(ev) ==
  CASE ev = "workflow_completed" -> "completed"
    [] ev = "workflow_failed" -> "failed"
    [] ev = "workflow_cancelled" -> "cancelled"

\* body of the listeners of workflow_completed / workflow_failed /
\* workflow_cancelled under the filter data.task_id === taskId
WorkflowTerminalBody(c, ev) ==
  /\ finalStatus' = EventStatus(ev)
  /\ outputs' = [outputs EXCEPT
                   !.success = IF ev = "workflow_completed" THEN "true" ELSE "false",
                   !.status = EventStatus(ev)]
  /\ IF ev = "workflow_cancelled"
     THEN UNCHANGED <<fetches, fetchCount>>
     ELSE /\ fetches' = fetches \cup {NewFetch("final", c)}
          /\ fetchCount' = fetchCount + 1
  /\ connectionTimeouts' = ClearConnectionTimeout(connectionTimeouts, c)
  /\ Cleanup(sources, currentEventSource, backoffTimers)
  /\ settlements' = Settle("resolve", EventStatus(ev), "event", c, ev)

\* listeners of workflow_completed / workflow_failed / workflow_cancelled on
\* connection c, for a payload whose task_id is tid
WorkflowTerminalListener(c, ev, tid) ==
  /\ dispatch = 0
  /\ c \in DOMAIN sources
  /\ sources[c] = "open"
  /\ ev \in TerminalEvents
  /\ IF TaskMatches(tid)
     THEN WorkflowTerminalBody(c, ev)
     ELSE UNCHANGED <<finalStatus, outputs, fetches, fetchCount,
                      connectionTimeouts, isIntentionallyClosed, sources,
                      currentEventSource, backoffTimers,
                      reconnectTimeoutHandle, settlements>>
  /\ UNCHANGED <<now, timeoutMs, started, reconnectAttempts, workflowStarted,
                 backoffLog, giveUpFetches, dispatch, opens>>

\* a workflow terminal event of the monitored task
WorkflowTerminal(c, ev) ==
  /\ WorkflowTerminalListener(c, ev, taskId)
  /\ UNCHANGED others

\* initial_state listener: whether it calls fetchFinalWorkflowResults, given
\* workflowStarted and whether the snapshot holds the monitored task
NeedsFallbackWhenAbsent(seenAlive, present) == ~present

NeedsFallback(seenAlive, present) == ~present /\ seenAlive

\* listener of initial_state on connection c; present: the monitored task is
\* in running_workflows
InitialState(c, present) ==
  /\ dispatch = 0
  /\ c \in DOMAIN sources
  /\ sources[c] = "open"
  /\ IF present
     THEN /\ workflowStarted' = TRUE
          /\ outputs' = [outputs EXCEPT !.status = "running", !.counts = "written"]
          /\ UNCHANGED <<fetches, fetchCount>>
     ELSE /\ NeedsFallback(workflowStarted, present)
          /\ fetchCount < MaxFetches
          /\ fetches' = fetches \cup {NewFetch("initial", c)}
          /\ fetchCount' = fetchCount + 1
          /\ UNCHANGED <<workflowStarted, outputs>>
  /\ UNCHANGED <<now, timeoutMs, started, reconnectAttempts,
                 currentEventSource, isIntentionallyClosed, finalStatus,
                 reconnectTimeoutHandle, sources, connectionTimeouts,
                 backoffTimers, backoffLog, giveUpFetches, settlements,
                 dispatch, opens, others>>

\* listener of workflow_started on connection c, for a payload whose
\* workflow.task.task_id is tid
WorkflowStartedListener(c, tid) ==
  /\ dispatch = 0
  /\ c \in DOMAIN sources
  /\ sources[c] = "open"
  /\ IF TaskMatches(tid)
     THEN /\ workflowStarted' = TRUE
          /\ outputs' = [outputs EXCEPT !.status = "running"]
     ELSE UNCHANGED <<workflowStarted, outputs>>
  /\ UNCHANGED <<now, timeoutMs, started, reconnectAttempts,
                 currentEventSource, isIntentionallyClosed, finalStatus,
                 reconnectTimeoutHandle, sources, connectionTimeouts,
                 backoffTimers, backoffLog, fetches, fetchCount,
                 giveUpFetches, settlements, dispatch, opens>>

\* a workflow_started event of the monitored task
WorkflowStarted(c) ==
  /\ WorkflowStartedListener(c, taskId)
  /\ UNCHANGED others

\* what the fallback branch of onerror does with the answer r:
\* <<"resolve" | "reject", value>>
GiveUpOutcomeNull(r) == <<"resolve", "null">>

GiveUpOutcome(r) ==
  IF r # NoAnswer /\ r.status # ""
  THEN IF ToLowerCase(r.status) \in {"completed", "success"}
       THEN <<"resolve", "completed">>
       ELSE IF ToLowerCase(r.status) \in {"failed", "error", "timeout"}
       THEN <<"resolve", "failed">>
       ELSE IF ToLowerCase(r.status) = "cancelled"
       THEN <<"resolve", "cancelled">>
       ELSE <<"resolve", "null">>
  ELSE <<"reject", "SSE connection failed and could not fetch final status">>

\* setFinalOutputs(results, status, success)
SetFinalOutputs(status, success) ==
  [success |-> IF success THEN "true" ELSE "false", status |-> status,
   counts |-> "written"]

\* .then of the fetchFinalWorkflowResults call of the give-up branch
GiveUpAnswer(f, r) ==
  /\ f \in fetches
  /\ f.kind = "giveup"
  /\ r \in FetchResults
  /\ fetches' = fetches \ {f}
  /\ settlements' = Settle(GiveUpOutcome(r)[1], GiveUpOutcome(r)[2], "giveup",
                           f.conn, r.status)
  /\ outputs' = IF GiveUpOutcome(r)[1] = "resolve" /\ GiveUpOutcome(r)[2] # "null"
                THEN SetFinalOutputs(GiveUpOutcome(r)[2],
                                     GiveUpOutcome(r)[2] = "completed")
                ELSE outputs
  /\ UNCHANGED <<now, timeoutMs, started, reconnectAttempts,
                 currentEventSource, isIntentionallyClosed, finalStatus,
                 workflowStarted, reconnectTimeoutHandle, sources,
                 connectionTimeouts, backoffTimers, backoffLog, fetchCount,
                 giveUpFetches, dispatch, opens, others>>

\* status the initial_state fallback maps the answer r to, "null" if none
InitialOutcome(r) ==
  IF r # NoAnswer /\ r.status # ""
  THEN IF ToLowerCase(r.status) \in {"completed", "success"} THEN "completed"
       ELSE IF ToLowerCase(r.status) \in {"failed", "error", "timeout"} THEN "failed"
       ELSE IF ToLowerCase(r.status) = "cancelled" THEN "cancelled"
       ELSE "null"
  ELSE "null"

\* .then of the fetchFinalWorkflowResults call of the initial_state listener
InitialAnswer(f, r) ==
  /\ f \in fetches
  /\ f.kind = "initial"
  /\ r \in FetchResults
  /\ fetches' = fetches \ {f}
  /\ IF finalStatus = "null" /\ InitialOutcome(r) # "null"
     THEN /\ outputs' = SetFinalOutputs(InitialOutcome(r),
                          InitialOutcome(r) = "completed" /\ r.success)
          /\ finalStatus' = InitialOutcome(r)
          /\ connectionTimeouts' = ClearConnectionTimeout(connectionTimeouts, f.conn)
          /\ Cleanup(sources, currentEventSource, backoffTimers)
          /\ settlements' = Settle("resolve", InitialOutcome(r), "initial",
                                   f.conn, r.status)
     ELSE UNCHANGED <<outputs, finalStatus, connectionTimeouts,
                      isIntentionallyClosed, sources, currentEventSource,
                      backoffTimers, reconnectTimeoutHandle, settlements>>
  /\ UNCHANGED <<now, timeoutMs, started, reconnectAttempts, workflowStarted,
                 backoffLog, fetchCount, giveUpFetches, dispatch, opens, others>>

\* .then of the fetchFinalWorkflowResults call of a terminal-event listener
FinalAnswer(f, r) ==
  /\ f \in fetches
  /\ f.kind = "final"
  /\ r \in FetchResults
  /\ fetches' = fetches \ {f}
  /\ outputs' = IF r # NoAnswer THEN [outputs EXCEPT !.counts = "written"]
                ELSE outputs
  /\ UNCHANGED <<now, timeoutMs, started, reconnectAttempts,
                 currentEventSource, isIntentionallyClosed, finalStatus,
                 workflowStarted, reconnectTimeoutHandle, sources,
                 connectionTimeouts, backoffTimers, backoffLog, fetchCount,
                 giveUpFetches, settlements, dispatch, opens, others>>

\* expiry instants of the armed timers
TimerInstants == {t.at : t \in connectionTimeouts \cup backoffTimers}

\* the clock: it advances to the next armed timer (a due timer fires before
\* the clock moves on) and, with no timer left, once past the deadline
Tick ==
  /\ dispatch = 0
  /\ started
  /\ \A i \in TimerInstants : i > now
  /\ \E t \in TimerInstants \cup {timeoutMs + SlackMs} :
       /\ t > now
       /\ \A i \in TimerInstants \cup {timeoutMs + SlackMs} : t <= i
       /\ now' = t
  /\ UNCHANGED <<timeoutMs, started, reconnectAttempts, currentEventSource,
                 isIntentionallyClosed, finalStatus, workflowStarted,
                 reconnectTimeoutHandle, sources, connectionTimeouts,
                 backoffTimers, backoffLog, fetches, fetchCount,
                 giveUpFetches, settlements, outputs, opens, dispatch, others>>

Next ==
  \/ Start
  \/ \E c \in DOMAIN sources : OnOpen(c)
  \/ \E c \in DOMAIN sources : OnError(c)
  \/ \E c \in DOMAIN sources : ErrorEvent(c)
  \/ ErrorListener
  \/ \E t \in connectionTimeouts : ConnectionTimeoutFire(t)
  \/ \E t \in backoffTimers : ReconnectFire(t)
  \/ \E c \in DOMAIN sources, ev \in TerminalEvents : WorkflowTerminal(c, ev)
  \/ \E c \in DOMAIN sources, present \in BOOLEAN : InitialState(c, present)
  \/ \E c \in DOMAIN sources : WorkflowStarted(c)
  \/ \E f \in fetches, r \in FetchResults : GiveUpAnswer(f, r)
  \/ \E f \in fetches, r \in FetchResults : InitialAnswer(f, r)
  \/ \E f \in fetches, r \in FetchResults : FinalAnswer(f, r)
  \/ Tick

Spec == Init /\ [][Next]_vars

\* the timers fire when due, the clock advances, a started listener dispatch
\* completes and every REST request is answered (fetchFinalWorkflowResults
\* returns null on any error)
FairSpec ==
  /\ Spec
  /\ WF_vars(Start)
  /\ WF_vars(Tick)
  /\ WF_vars(ErrorListener)
  /\ WF_vars(\E t \in connectionTimeouts : ConnectionTimeoutFire(t))
  /\ WF_vars(\E t \in backoffTimers : ReconnectFire(t))
  /\ WF_vars(\E f \in fetches, r \in FetchResults : GiveUpAnswer(f, r))

\* ------------------------------------------------- child-test tracker

StreamTimeoutSec == 2

MaxChildEvents == 5

MaxForeign == 1

\* activeTests (its keys), testsPassed and testsFailed of the closure
Tracker ==
  [activeTests |-> activeTests, testsPassed |-> testsPassed,
   testsFailed |-> testsFailed]

\* listener of test_started for child k
TestStartedListener(tr, k) ==
  IF TaskMatches(ParentOf(k)) /\ k \notin tr.activeTests
  THEN [tr EXCEPT !.activeTests = @ \cup {k}]
  ELSE tr

\* handleTestCompletion for the payload task_id k
handleTestCompletionKeep(tr, k, passed) ==
  IF k \in tr.activeTests
  THEN IF passed
       THEN [tr EXCEPT !.testsPassed = @ + 1]
       ELSE [tr EXCEPT !.testsFailed = @ + 1]
  ELSE tr

handleTestCompletion(tr, k, passed) ==
  IF k \in tr.activeTests
  THEN IF passed
       THEN [tr EXCEPT !.testsPassed = @ + 1, !.activeTests = @ \ {k}]
       ELSE [tr EXCEPT !.testsFailed = @ + 1, !.activeTests = @ \ {k}]
  ELSE tr

\* listener of test_cancelled_with_data for the payload task_id k
TestCancelledListener(tr, k) ==
  IF k \in tr.activeTests
  THEN [tr EXCEPT !.activeTests = @ \ {k}]
  ELSE tr

\* number of child events of the monitored job delivered so far
RECURSIVE TotalSeen(_)
TotalSeen(ks) ==
  IF ks = {} THEN 0
  ELSE LET k == CHOOSE x \in ks : TRUE
       IN Len(seen[k]) + TotalSeen(ks \ {k})

\* a child event ev of test k arrives on connection c and its listener turns
\* the tracker into tr
ChildEvent(c, k, ev, tr) ==
  /\ dispatch = 0
  /\ c \in DOMAIN sources
  /\ sources[c] = "open"
  /\ IF k \in Children
     THEN /\ TotalSeen(Children) < MaxChildEvents
          /\ seen' = [seen EXCEPT ![k] = Append(@, ev)]
          /\ UNCHANGED foreign
     ELSE /\ Len(foreign.events) < MaxForeign
          /\ foreign' = [foreign EXCEPT !.events = Append(@, ev)]
          /\ UNCHANGED seen
  /\ activeTests' = tr.activeTests
  /\ testsPassed' = tr.testsPassed
  /\ testsFailed' = tr.testsFailed
  /\ UNCHANGED <<now, timeoutMs, started, reconnectAttempts,
                 currentEventSource, isIntentionallyClosed, finalStatus,
                 workflowStarted, reconnectTimeoutHandle, sources,
                 connectionTimeouts, backoffTimers, backoffLog, fetches,
                 fetchCount, giveUpFetches, settlements, outputs, dispatch,
                 opens, dropped, outside>>

TestStarted(c, k) ==
  ChildEvent(c, k, "started", TestStartedListener(Tracker, k))

\* test_completed / test_completed_with_data (passed) and test_failed /
\* test_failed_with_data
TestCompletion(c, k, passed) ==
  ChildEvent(c, k, IF passed THEN "passed" ELSE "failed",
             handleTestCompletion(Tracker, k, passed))

TestCancelled(c, k) ==
  ChildEvent(c, k, "cancelled", TestCancelledListener(Tracker, k))

\* a workflow terminal event of another job
ForeignWorkflowTerminal(c, ev) ==
  /\ Len(foreign.events) < MaxForeign
  /\ WorkflowTerminalListener(c, ev, OtherTask)
  /\ foreign' = [foreign EXCEPT !.events = Append(@, ev)]
  /\ UNCHANGED <<activeTests, testsPassed, testsFailed, seen, dropped,
                 outside>>

\* a workflow_started event of another job
ForeignWorkflowStarted(c) ==
  /\ Len(foreign.events) < MaxForeign
  /\ WorkflowStartedListener(c, OtherTask)
  /\ foreign' = [foreign EXCEPT !.events = Append(@, "workflow_started")]
  /\ UNCHANGED <<activeTests, testsPassed, testsFailed, seen, dropped,
                 outside>>

\* a server-pushed "error" event whose JSON payload is about another job
ForeignErrorEvent(c) ==
  /\ dispatch = 0
  /\ c \in DOMAIN sources
  /\ sources[c] = "open"
  /\ foreign.errors < MaxForeign
  /\ OnErrorHandler(c)
  /\ dispatch' = c
  /\ foreign' = [foreign EXCEPT !.errors = @ + 1]
  /\ UNCHANGED <<now, timeoutMs, started, finalStatus, workflowStarted,
                 outputs, opens, activeTests, testsPassed, testsFailed, seen,
                 dropped, outside>>

StreamInit == InitFor({StreamTimeoutSec}) /\ mt = MtInit /\ run = DefaultRun /\ upload = DefaultUpload /\ resolver = DefaultResolver /\ ws = DefaultWs

StreamNext ==
  \/ Start
  \/ \E c \in DOMAIN sources : OnOpen(c)
  \/ \E c \in DOMAIN sources : OnError(c)
  \/ \E t \in connectionTimeouts : ConnectionTimeoutFire(t)
  \/ \E t \in backoffTimers : ReconnectFire(t)
  \/ \E c \in DOMAIN sources, ev \in TerminalEvents : WorkflowTerminal(c, ev)
  \/ \E c \in DOMAIN sources, k \in Children : TestStarted(c, k)
  \/ \E c \in DOMAIN sources, k \in Children, passed \in BOOLEAN :
       TestCompletion(c, k, passed)
  \/ \E c \in DOMAIN sources, k \in Children : TestCancelled(c, k)
  \/ Tick

StreamSpec == StreamInit /\ [][StreamNext]_vars

MaxSharedChildEvents == 2

SharedBudget == TotalSeen(Children) < MaxSharedChildEvents

\* the stream also carries events of other jobs
SharedNext ==
  \/ Start
  \/ \E c \in DOMAIN sources : OnOpen(c)
  \/ \E c \in DOMAIN sources : OnError(c)
  \/ \E c \in DOMAIN sources : ErrorEvent(c)
  \/ \E c \in DOMAIN sources : ForeignErrorEvent(c)
  \/ ErrorListener
  \/ \E t \in connectionTimeouts : ConnectionTimeoutFire(t)
  \/ \E t \in backoffTimers : ReconnectFire(t)
  \/ \E c \in DOMAIN sources, ev \in TerminalEvents : WorkflowTerminal(c, ev)
  \/ \E c \in DOMAIN sources, ev \in TerminalEvents :
       ForeignWorkflowTerminal(c, ev)
  \/ \E c \in DOMAIN sources : WorkflowStarted(c)
  \/ \E c \in DOMAIN sources : ForeignWorkflowStarted(c)
  \/ \E c \in DOMAIN sources, k \in TestIds :
       SharedBudget /\ TestStarted(c, k)
  \/ \E c \in DOMAIN sources, k \in TestIds, passed \in BOOLEAN :
       SharedBudget /\ TestCompletion(c, k, passed)
  \/ \E c \in DOMAIN sources, k \in TestIds :
       SharedBudget /\ TestCancelled(c, k)
  \/ Tick

SharedSpec == StreamInit /\ [][SharedNext]_vars

\* ------------------------------------------ retries across an open

\* the shortest timeout in which an eleventh connection can be created
RetryTimeoutSec == LongTimeoutSec + 1

MaxRetryOpens == 1

RetryInit ==
  /\ InitFor({RetryTimeoutSec})
  /\ mt = MtInit
  /\ run = DefaultRun
  /\ upload = DefaultUpload /\ resolver = DefaultResolver /\ ws = DefaultWs

\* transport signals, timers and the give-up fallback only
RetryNext ==
  \/ Start
  \/ \E c \in DOMAIN sources : opens < MaxRetryOpens /\ OnOpen(c)
  \/ \E c \in DOMAIN sources : OnError(c)
  \/ \E t \in connectionTimeouts : ConnectionTimeoutFire(t)
  \/ \E t \in backoffTimers : ReconnectFire(t)
  \/ \E f \in fetches, r \in FetchResults : GiveUpAnswer(f, r)
  \/ Tick

RetrySpec == RetryInit /\ [][RetryNext]_vars

\* ---------------------------------------------------------- monitorTest

MaxProgress == 2

\* the variables of monitorWorkflow
workflowVars ==
  <<now, timeoutMs, started, reconnectAttempts, currentEventSource,
    isIntentionallyClosed, finalStatus, workflowStarted,
    reconnectTimeoutHandle, sources, connectionTimeouts, backoffTimers,
    backoffLog, fetches, fetchCount, giveUpFetches, settlements, outputs,
    opens, dispatch, activeTests, testsPassed, testsFailed, seen, foreign,
    dropped>>

\* timeoutSeconds * 1000 of the monitorTest session
MtTimeoutMs == 1000 * ShortTimeoutSec

MtTerminalEvents == {"test_completed", "test_failed", "test_cancelled"}

MtDataEvents == {"test_completed_with_data", "test_failed_with_data"}

MtStatus(ev) ==
  CASE ev \in {"test_completed", "test_completed_with_data"} -> "completed"
    [] ev \in {"test_failed", "test_failed_with_data"} -> "failed"
    [] ev = "test_cancelled" -> "cancelled"

\* resolve(value) / reject(Error(value)) of the monitorTest promise
MtSettle(m, kind, value, via) ==
  [m EXCEPT !.settlements =
     Append(@, [kind |-> kind, value |-> value, via |-> via, at |-> m.now])]

\* eventSource.close(); clearTimeout(timeoutHandle)
MtClose(m) == [m EXCEPT !.eventSource = "closed", !.timeoutHandle = FALSE]

MtOnOpen ==
  /\ mt.eventSource = "connecting"
  /\ mt' = [mt EXCEPT !.eventSource = "open"]
  /\ UNCHANGED <<workflowVars, run, upload, resolver, ws>>

\* eventSource.onerror for a transport error
MtOnError ==
  /\ mt.eventSource # "closed"
  /\ mt' = MtSettle(MtClose(mt), "reject", "SSE connection failed", "onerror")
  /\ UNCHANGED <<workflowVars, run, upload, resolver, ws>>

\* a server-pushed "error" event: onerror, then the 'error' listener
MtErrorEvent(json) ==
  /\ mt.eventSource = "open"
  /\ mt' = MtSettle(
             MtSettle(MtClose(mt), "reject", "SSE connection failed",
                      "onerror"),
             "reject",
             IF json THEN "SSE error" ELSE "SSE connection error",
             "errorEvent")
  /\ UNCHANGED <<workflowVars, run, upload, resolver, ws>>

\* the callback of timeoutHandle
MtTimeoutFire ==
  /\ mt.timeoutHandle
  /\ mt.now >= MtTimeoutMs
  /\ mt' = IF mt.finalStatus = "null"
           THEN MtSettle(MtClose(mt), "resolve", "null", "timeout")
           ELSE MtClose(mt)
  /\ UNCHANGED <<workflowVars, run, upload, resolver, ws>>

\* initial_state with the test running, test_started and test_updated for
\* the monitored task: logProgress
MtProgress ==
  /\ mt.eventSource = "open"
  /\ mt.progress < MaxProgress
  /\ mt' = [mt EXCEPT !.progress = @ + 1]
  /\ UNCHANGED <<workflowVars, run, upload, resolver, ws>>

\* finalStatus = st; eventSource.close(); clearTimeout; resolve(finalStatus)
MtFinish(m, st, via) ==
  MtSettle(MtClose([m EXCEPT !.finalStatus = st]), "resolve", st, via)

\* listeners of test_completed, test_failed and test_cancelled
MtTerminal(ev) ==
  /\ mt.eventSource = "open"
  /\ ev \in MtTerminalEvents
  /\ mt' = MtFinish(mt, MtStatus(ev), "event")
  /\ UNCHANGED <<workflowVars, run, upload, resolver, ws>>

\* listeners of test_completed_with_data and test_failed_with_data; hasData:
\* the payload carries completed_test / failed_test, so the listener awaits
\* generateShareableReportLink
MtTerminalWithData(ev, hasData) ==
  /\ mt.eventSource = "open"
  /\ ev \in MtDataEvents
  /\ MtStatus(ev) \notin mt.pending
  /\ mt' = IF hasData
           THEN [mt EXCEPT !.pending = @ \cup {MtStatus(ev)}]
           ELSE MtFinish(mt, MtStatus(ev), "event")
  /\ UNCHANGED <<workflowVars, run, upload, resolver, ws>>

\* generateShareableReportLink answers the listener that awaits it
MtReport(st, link) ==
  /\ st \in mt.pending
  /\ mt' = MtFinish([mt EXCEPT !.pending = @ \ {st},
                               !.reportLink = IF link THEN "link" ELSE "null"],
                    st, "report")
  /\ UNCHANGED <<workflowVars, run, upload, resolver, ws>>

\* time passes until the timeout timer is due
MtTick ==
  /\ mt.timeoutHandle
  /\ mt.now < MtTimeoutMs
  /\ mt' = [mt EXCEPT !.now = MtTimeoutMs]
  /\ UNCHANGED <<workflowVars, run, upload, resolver, ws>>

MtInitial == InitFor({ShortTimeoutSec}) /\ mt = MtInit /\ run = DefaultRun /\ upload = DefaultUpload /\ resolver = DefaultResolver /\ ws = DefaultWs

MtNext ==
  \/ MtOnOpen
  \/ MtOnError
  \/ \E json \in BOOLEAN : MtErrorEvent(json)
  \/ MtTimeoutFire
  \/ MtProgress
  \/ \E ev \in MtTerminalEvents : MtTerminal(ev)
  \/ \E ev \in MtDataEvents, hasData \in BOOLEAN : MtTerminalWithData(ev, hasData)
  \/ \E st \in {"completed", "failed"}, link \in BOOLEAN : MtReport(st, link)
  \/ MtTick

MtSpec == MtInitial /\ [][MtNext]_vars

\* ---------------------------------------------------------------- run()

\* an Error message or a setFailed message: its text, with the timeout, the
\* status and the subject ('Test' or 'Workflow') it interpolates
Msg(text, n, status, subject) ==
  [text |-> text, n |-> n, status |-> status, subject |-> subject]

Subject == IF run.inputs.testId THEN "Test" ELSE "Workflow"

\* throw Error(m) inside the try block
Throw(m) == [run EXCEPT !.thrown = <<m>>, !.pc = "catch"]

MissingKeyText == "Missing REVYL_API_KEY get API token from revyl settings"

NeitherIdText == "Either test-id or workflow-id must be provided"

BothIdsText == "Cannot provide both test-id and workflow-id"

\* the text of the Error the checks at the top of run() throw for the
\* inputs, "" when they all pass
ValidationErrorIdsFirst(inputs) ==
  IF ~inputs.testId /\ ~inputs.workflowId THEN NeitherIdText
  ELSE IF inputs.testId /\ inputs.workflowId THEN BothIdsText
  ELSE IF ~inputs.apiKey THEN MissingKeyText
  ELSE ""

ValidationError(inputs) ==
  IF ~inputs.apiKey THEN MissingKeyText
  ELSE IF ~inputs.testId /\ ~inputs.workflowId THEN NeitherIdText
  ELSE IF inputs.testId /\ inputs.workflowId THEN BothIdsText
  ELSE ""

\* the API key check and the validation of test-id / workflow-id
RunValidate ==
  /\ run.pc = "validate"
  /\ run' =
       IF ValidationError(run.inputs) # ""
       THEN Throw(Msg(ValidationError(run.inputs), 0, "", ""))
       ELSE [run EXCEPT !.pc = "post"]
  /\ UNCHANGED <<workflowVars, mt, upload, resolver, ws>>

BadStatusText == "Failed to queue <subject>: API returned status code <n>"

NoTaskIdText == "Failed to queue <subject>: task_id missing in API response"

\* the text of the Error the checks of the POST answer throw, "" when the
\* answer is a 200 with a task_id
QueueErrorStatusOnly(post) == IF post = "500" THEN BadStatusText ELSE ""

QueueError(post) ==
  IF post = "500" THEN BadStatusText
  ELSE IF post = "no task_id" THEN NoTaskIdText
  ELSE ""

\* client.postJson and the checks of its answer
RunPost ==
  /\ run.pc = "post"
  /\ run' =
       LET r == [run EXCEPT !.posted = TRUE]
       IN  IF QueueError(run.inputs.post) # ""
           THEN [r EXCEPT
                   !.thrown = <<Msg(QueueError(run.inputs.post),
                                    IF run.inputs.post = "500" THEN 500 ELSE 0,
                                    "", Subject)>>,
                   !.pc = "catch"]
           ELSE [r EXCEPT
                   !.task_id = IF run.inputs.post = "200"
                               THEN taskId ELSE "undefined",
                   !.pc = "monitor"]
  /\ UNCHANGED <<workflowVars, mt, upload, resolver, ws>>

\* await monitorTaskViaSSE(...): it resolves a status string or null, whose
\* .status is undefined, so finalStatus is the result; or it rejects
RunMonitor ==
  /\ run.pc = "monitor"
  /\ run' =
       LET r == [run EXCEPT !.monitored = TRUE]
       IN  IF run.inputs.monitor = "reject"
           THEN [r EXCEPT !.thrown = <<Msg("SSE error", 0, "", "")>>,
                          !.pc = "catch"]
           ELSE [r EXCEPT !.finalStatus = run.inputs.monitor, !.pc = "status"]
  /\ UNCHANGED <<workflowVars, mt, upload, resolver, ws>>

\* finalStatus === null
IsTimeoutResultNever(fs) == FALSE

IsTimeoutResult(fs) == fs = "null"

\* finalStatus === 'completed'
IsSuccessStatusAny(fs) == TRUE

IsSuccessStatus(fs) == fs = "completed"

\* what run() does with finalStatus
RunStatus ==
  /\ run.pc = "status"
  /\ run' =
       IF IsTimeoutResult(run.finalStatus)
       THEN Throw(Msg("Timeout of <n>s reached while waiting for task to finish",
                      run.inputs.timeoutSeconds, "", ""))
       ELSE IF IsSuccessStatus(run.finalStatus)
       THEN [run EXCEPT !.success = "true", !.pc = "done"]
       ELSE [run EXCEPT
               !.setFailed =
                  Append(@, Msg("<subject> finished with status: <status>",
                                0, run.finalStatus, Subject)),
               !.success = "false",
               !.thrown =
                  <<Msg("<subject> finished with status '<status>'. Check logs or artifacts for details.",
                        0, run.finalStatus, Subject)>>,
               !.pc = "catch"]
  /\ UNCHANGED <<workflowVars, mt, upload, resolver, ws>>

\* catch (error) { core.setFailed(error.message) }
RunCatch ==
  /\ run.pc = "catch"
  /\ run' = [run EXCEPT !.setFailed = Append(@, run.thrown[1]), !.pc = "done"]
  /\ UNCHANGED <<workflowVars, mt, upload, resolver, ws>>

RunInitial ==
  /\ InitFor({ShortTimeoutSec})
  /\ mt = MtInit
  /\ run \in {RunInit(i) : i \in RunInputs}
  /\ upload = DefaultUpload /\ resolver = DefaultResolver /\ ws = DefaultWs

RunNext ==
  \/ RunValidate
  \/ RunPost
  \/ RunMonitor
  \/ RunStatus
  \/ RunCatch

RunSpec == RunInitial /\ [][RunNext]_vars

\* ------------------------------------------------- upload-build run()

\* the text of the Error thrown before the HttpClient is created, "" when
\* every check passes
UploadInputErrorNoMetadata(inputs) ==
  IF ~inputs.apiKey
  THEN "Missing REVYL_API_KEY - get API token from revyl settings"
  ELSE IF ~inputs.required THEN "Input required and not supplied"
  ELSE IF ~inputs.filePath /\ ~inputs.expoUrl
  THEN "Either file-path or expo-url must be provided"
  ELSE IF inputs.filePath /\ inputs.expoUrl
  THEN "Cannot provide both file-path and expo-url - they are mutually exclusive"
  ELSE IF inputs.expoHeaders = "invalid"
  THEN "Invalid JSON in expo-headers: <message>"
  ELSE ""

UploadInputError(inputs) ==
  IF ~inputs.apiKey
  THEN "Missing REVYL_API_KEY - get API token from revyl settings"
  ELSE IF ~inputs.required THEN "Input required and not supplied"
  ELSE IF ~inputs.filePath /\ ~inputs.expoUrl
  THEN "Either file-path or expo-url must be provided"
  ELSE IF inputs.filePath /\ inputs.expoUrl
  THEN "Cannot provide both file-path and expo-url - they are mutually exclusive"
  ELSE IF inputs.metadata = "invalid"
  THEN "Invalid JSON in metadata: <message>"
  ELSE IF inputs.expoHeaders = "invalid"
  THEN "Invalid JSON in expo-headers: <message>"
  ELSE ""

\* throw Error(text) inside the try block of upload-build's run()
UploadThrow(u, text) == [u EXCEPT !.thrown = <<text>>, !.pc = "catch"]

\* the checks from the API key to the parsing of expo-headers
UploadValidate ==
  /\ upload.pc = "validate"
  /\ upload' =
       IF UploadInputError(upload.inputs) # ""
       THEN UploadThrow(upload, UploadInputError(upload.inputs))
       ELSE [upload EXCEPT !.pc = "first"]
  /\ UNCHANGED <<workflowVars, mt, run, resolver, ws>>

\* the from-url POST (expo-url) or, after fs.existsSync, the upload-url POST
\* (file-path), and the checks of the answer
UploadFirst ==
  /\ upload.pc = "first"
  /\ upload' =
       LET sent == [upload EXCEPT !.requests = @ + 1]
           what == IF upload.inputs.expoUrl
                   THEN "Failed to upload from Expo URL: "
                   ELSE "Failed to get upload URL: "
       IN  IF ~upload.inputs.expoUrl /\ ~upload.inputs.fileExists
           THEN UploadThrow(upload, "File not found: <file-path>")
           ELSE IF upload.inputs.first = "500"
           THEN UploadThrow(sent, what \o "<detail or status code>")
           ELSE IF upload.inputs.first = "incomplete"
           THEN UploadThrow(sent, what \o "<field> missing in API response")
           ELSE [sent EXCEPT !.versionId = "V",
                             !.pc = IF upload.inputs.expoUrl
                                    THEN "extract" ELSE "s3"]
  /\ UNCHANGED <<workflowVars, mt, run, resolver, ws>>

\* the PUT of the file to the upload URL
UploadS3 ==
  /\ upload.pc = "s3"
  /\ upload' =
       LET sent == [upload EXCEPT !.requests = @ + 1]
       IN  IF upload.inputs.s3 # "200"
           THEN UploadThrow(sent, "Failed to upload file to S3: status code <n>")
           ELSE [sent EXCEPT !.pc = "extract"]
  /\ UNCHANGED <<workflowVars, mt, run, resolver, ws>>

\* the extract-package-id POST inside its own try / catch: whatever it
\* answers, the run goes on
UploadExtract ==
  /\ upload.pc = "extract"
  /\ upload' = [upload EXCEPT !.requests = @ + 1,
                              !.pc = IF upload.inputs.expoUrl
                                     THEN "outputs" ELSE "complete"]
  /\ UNCHANGED <<workflowVars, mt, run, resolver, ws>>

\* the complete-upload POST
UploadComplete ==
  /\ upload.pc = "complete"
  /\ upload' =
       LET sent == [upload EXCEPT !.requests = @ + 1]
       IN  IF upload.inputs.complete # "200"
           THEN UploadThrow(sent, "Failed to complete upload: <detail or status code>")
           ELSE [sent EXCEPT !.pc = "outputs"]
  /\ UNCHANGED <<workflowVars, mt, run, resolver, ws>>

\* "Set outputs" and return true
UploadOutputs ==
  /\ upload.pc = "outputs"
  /\ upload' = [upload EXCEPT !.success = "true", !.pc = "done"]
  /\ UNCHANGED <<workflowVars, mt, run, resolver, ws>>

\* the failure handler: what the catch block of upload-build's run() writes
UploadCatchSilent(u) == [u EXCEPT !.pc = "done"]

UploadCatch(u) ==
  [u EXCEPT !.success = "false", !.errorMessage = u.thrown[1],
            !.setFailed = Append(@, u.thrown[1]), !.pc = "done"]

UploadFail ==
  /\ upload.pc = "catch"
  /\ upload' = UploadCatch(upload)
  /\ UNCHANGED <<workflowVars, mt, run, resolver, ws>>

UploadInitial ==
  /\ InitFor({ShortTimeoutSec})
  /\ mt = MtInit
  /\ run = DefaultRun
  /\ upload \in {UploadInit(i) : i \in UploadInputs}
  /\ resolver = DefaultResolver /\ ws = DefaultWs

UploadNext ==
  \/ UploadValidate
  \/ UploadFirst
  \/ UploadS3
  \/ UploadExtract
  \/ UploadComplete
  \/ UploadOutputs
  \/ UploadFail

UploadSpec == UploadInitial /\ [][UploadNext]_vars

\* ------------------------------------------------------------------ claims
Settled == settlements # <<>>

GiveUpInFlight == \E f \in fetches : f.kind = "giveup"

\* C1: for any sequence of events, errors, timers and fallback answers the
\* session's resolve/reject callback is invoked exactly once; stated here as
\* its safety half: it is never invoked a second time.
C1_ExactlyOnce == Len(settlements) <= 1

\* the failing run of C1 that needs no coincidence of instants: the deadline
\* resolves null while an initial_state fallback request is in flight, then
\* its answer resolves again
C1_DeadlineThenAnswer ==
  /\ Len(settlements) = 2
  /\ settlements[1].via = "deadline"
  /\ settlements[2].via = "initial"

ResultValues == {"completed", "failed", "cancelled", "null"}

C2_Safety ==
  /\ \A i \in DOMAIN settlements :
       \/ settlements[i].kind = "resolve" /\ settlements[i].value \in ResultValues
       \/ settlements[i].kind = "reject" /\ settlements[i].via \in {"errorEvent", "giveup"}
  /\ (~Settled /\ giveUpFetches = 0) => now <= timeoutMs
  /\ (Settled /\ giveUpFetches = 0) => settlements[1].at <= timeoutMs
  /\ (Settled /\ settlements[1].via = "deadline") =>
        /\ settlements[1].kind = "resolve"
        /\ settlements[1].value = "null"
        /\ settlements[1].at = timeoutMs
        /\ Live = {}

ExpectedStatus ==
  [workflow_completed |-> "completed", workflow_failed |-> "failed",
   workflow_cancelled |-> "cancelled"]

\* C3: a terminal workflow event for the monitored task resolves the session
\* with the matching status; received on attempt #0 no reconnect is ever
\* scheduled; received on attempt #1 exactly one reconnect, of 1000 ms,
\* precedes it.
C3_TerminalEvent ==
  \A i \in DOMAIN settlements :
    settlements[i].via = "event" =>
      /\ i = 1
      /\ settlements[i].kind = "resolve"
      /\ settlements[i].value = ExpectedStatus[settlements[i].answer]
      /\ finalStatus = settlements[i].value
      /\ settlements[i].conn = 1 => backoffLog = <<>>
      /\ settlements[i].conn = 2 => backoffLog = <<1000>>

C3_Witness ==
  /\ Settled
  /\ settlements[1].via = "event"
  /\ settlements[1].conn = 2
  /\ settlements[1].value = "failed"
  /\ backoffLog = <<1000>>

ExpectedDelays ==
  <<1000, 2000, 4000, 8000, 16000, 30000, 30000, 30000, 30000, 30000>>

\* C4: the reconnect delay for n earlier failures is min(30000, 1000 * 2^n):
\* non-decreasing over n = 0..9, 1000 at n = 0, never above 30000, and every
\* backoff timer the session arms uses the value for its n.
C4_Backoff ==
  /\ \A n \in 0..9 : calculateBackoffDelay(n) = ExpectedDelays[n + 1]
  /\ \A n \in 0..8 : calculateBackoffDelay(n) <= calculateBackoffDelay(n + 1)
  /\ \A i \in DOMAIN backoffLog :
       \E n \in 0..9 : backoffLog[i] = ExpectedDelays[n + 1]
  /\ \A t \in backoffTimers :
       /\ reconnectAttempts \in 1..9
       /\ t.delay = ExpectedDelays[reconnectAttempts]
       /\ t.delay <= 30000
       /\ backoffLog[t.seq] = t.delay

C4_Witness ==
  \E t \in backoffTimers : t.delay = 30000 /\ reconnectAttempts = 6

\* C5: after 10 consecutive failures the session gives up whatever budget
\* remains: the fallback request is issued exactly once, and afterwards no
\* reconnect is scheduled and no connection attempt is opened.
C5_GiveUp ==
  [][/\ reconnectAttempts' >= MAX_RECONNECT_ATTEMPTS =>
          /\ giveUpFetches' = 1
          /\ backoffTimers' = {}
          /\ Live' = {}
     /\ giveUpFetches >= 1 =>
          /\ giveUpFetches' = giveUpFetches
          /\ backoffLog' = backoffLog
          /\ backoffTimers' = backoffTimers
          /\ Len(sources') = Len(sources)]_vars

C5_Witness ==
  /\ giveUpFetches = 1
  /\ reconnectAttempts = MAX_RECONNECT_ATTEMPTS
  /\ Len(sources) = 10
  /\ Len(backoffLog) = 9
  /\ Settled
  /\ settlements[1].via = "giveup"

C7_FallbackMapping ==
  \A i \in DOMAIN settlements :
    settlements[i].via = "giveup" =>
      /\ settlements[i].answer \in {"completed", "SUCCESS"} =>
           settlements[i].kind = "resolve" /\ settlements[i].value = "completed"
      /\ settlements[i].answer \in {"Failed", "error", "timeout"} =>
           settlements[i].kind = "resolve" /\ settlements[i].value = "failed"
      /\ settlements[i].answer = "Cancelled" =>
           settlements[i].kind = "resolve" /\ settlements[i].value = "cancelled"
      /\ settlements[i].answer = "running" =>
           settlements[i].kind = "resolve" /\ settlements[i].value = "null"

C7_Witness ==
  \E i \in DOMAIN settlements :
    /\ settlements[i].via = "giveup"
    /\ settlements[i].answer = "SUCCESS"
    /\ settlements[i].value = "completed"

\* C8: when the deadline elapses while a reconnect backoff wait is pending,
\* the session resolves null at the deadline, the backoff timer is cancelled
\* and no connection attempt is opened afterwards.
C8_DeadlineDuringBackoff ==
  \A i \in DOMAIN settlements :
    (settlements[i].via = "deadline" /\ settlements[i].waiting) =>
      /\ i = 1
      /\ settlements[i].kind = "resolve"
      /\ settlements[i].value = "null"
      /\ settlements[i].at = timeoutMs
      /\ backoffTimers = {}
      /\ Len(sources) = settlements[i].conns
      /\ Live = {}

C8_Witness ==
  /\ Settled
  /\ settlements[1].via = "deadline"
  /\ settlements[1].waiting
  /\ now > settlements[1].at

C10_OneConnection ==
  /\ Cardinality(Live) <= 1
  /\ \A i \in DOMAIN sources : i < Len(sources) => sources[i] = "closed"
  /\ Live # {} => (currentEventSource \in Live /\ backoffTimers = {})
  /\ dispatch # 0 => Live = {}

C10_Witness ==
  /\ Len(sources) >= 3
  /\ Live = {Len(sources)}
  /\ sources[Len(sources)] = "open"

\* --------------------------------------------------- claims C11 .. C20

Counts(tr) == <<tr.testsPassed, tr.testsFailed>>

Terminals == {"passed", "failed"}

\* the child events of Scenario E were delivered (A started twice, once as a
\* replay, and completed; B started and completed) and workflow_completed
\* settled the session
ScenarioE ==
  /\ seen["A"] = <<"started", "started", "passed">>
  /\ seen["B"] = <<"started", "passed">>
  /\ Settled
  /\ settlements[1].answer = "workflow_completed"

\* C11: in every reachable tracker state, delivering the same test_started
\* event, or the same terminal event, of a child twice leaves the same
\* passed/failed counts as delivering it once; and after the events of
\* Scenario E the final counts are passed = 2, failed = 0.
C11_ReplayIdempotent ==
  /\ \A k \in Children :
       LET once == TestStartedListener(Tracker, k)
       IN  Counts(TestStartedListener(once, k)) = Counts(once)
  /\ \A k \in Children, passed \in BOOLEAN :
       LET once == handleTestCompletion(Tracker, k, passed)
       IN  Counts(handleTestCompletion(once, k, passed)) = Counts(once)
  /\ ScenarioE => testsPassed = 2 /\ testsFailed = 0

\* Scenario E with the stream drop: the session settled on its second
\* connection after one backoff, with both children counted as passed
C11_Witness ==
  /\ ScenarioE
  /\ settlements[1].conn = 2
  /\ backoffLog = <<1000>>
  /\ testsPassed = 2
  /\ testsFailed = 0

\* C12: a terminal event of a child whose test_started was never delivered
\* is counted: when the only event delivered for a child is a terminal one,
\* passed (resp. failed) is at least one.
C12_OmissionTolerance ==
  \A k \in Children :
    Len(seen[k]) = 1 =>
      /\ seen[k][1] = "passed" => testsPassed >= 1
      /\ seen[k][1] = "failed" => testsFailed >= 1

\* C13: every child contributes at most one increment to passed + failed,
\* whatever is redelivered: the sum never exceeds the number of children
\* for which a terminal event was delivered.
C13_CountedOnce ==
  testsPassed + testsFailed <=
    Cardinality({k \in Children :
                   \E i \in 1..Len(seen[k]) : seen[k][i] \in Terminals})

\* everything of the session but the record of other jobs' events
sessionVars ==
  <<now, timeoutMs, started, reconnectAttempts, currentEventSource,
    isIntentionallyClosed, finalStatus, workflowStarted,
    reconnectTimeoutHandle, sources, connectionTimeouts, backoffTimers,
    backoffLog, fetches, fetchCount, giveUpFetches, settlements, outputs,
    dispatch, opens, activeTests, testsPassed, testsFailed, seen, mt, run,
    upload, resolver>>

C16_ErrorEventFatal ==
  \A i \in 1..Len(settlements) :
    settlements[i].via = "errorEvent" =>
      /\ i = 1
      /\ settlements[i].kind = "reject"
      /\ settlements[i].value = "SSE error"
      /\ isIntentionallyClosed
      /\ Live = {}
      /\ backoffTimers = {}
      /\ giveUpFetches = 0

\* C17: a transport error before the deadline never ends a session by
\* itself; for the single-test monitor: no settlement is made by onerror
\* before the deadline.
C17_TestRecovers ==
  \A i \in 1..Len(mt.settlements) :
    ~(mt.settlements[i].via = "onerror" /\ mt.settlements[i].at < MtTimeoutMs)

\* C18: once the promise is settled the session is terminal: the guards of
\* onerror and createConnection make them return at once, no connection is
\* live, no reconnect timer is armed, and no later step opens a connection
\* or arms a reconnect timer.
C18_Terminal ==
  /\ [](Settled =>
          /\ isIntentionallyClosed
          /\ Live = {}
          /\ backoffTimers = {})
  /\ [][Settled =>
          /\ Len(sources') = Len(sources)
          /\ backoffLog' = backoffLog
          /\ reconnectAttempts' = reconnectAttempts]_vars

\* time went on after a session was settled while a reconnect timer was
\* armed, and a connection timer of it is still armed
C18_Witness ==
  /\ Settled
  /\ settlements[1].waiting
  /\ now > settlements[1].at
  /\ connectionTimeouts # {}

\* C19: onopen sets the attempt counter to 0, so it is 0 while a connection
\* is open, and the reconnect timer armed by an error of an open connection
\* has the initial delay of 1000 ms whatever failures preceded the open.
C19_OpenResets ==
  /\ [][\A c \in DOMAIN sources :
          sources[c] = "connecting" /\ sources'[c] = "open" =>
            reconnectAttempts' = 0]_vars
  /\ [](\A c \in DOMAIN sources : sources[c] = "open" => reconnectAttempts = 0)
  /\ [][\A c \in DOMAIN sources :
          /\ sources[c] = "open"
          /\ sources'[c] = "closed"
          /\ Len(backoffLog') = Len(backoffLog) + 1
          => backoffLog'[Len(backoffLog')] = INITIAL_BACKOFF_MS]_vars

\* two failed attempts (delays 1000 and 2000), then an open, then an error
\* whose reconnect is scheduled after 1000 ms again
C19_Witness ==
  /\ opens >= 1
  /\ Len(backoffLog) >= 3
  /\ backoffLog[Len(backoffLog) - 1] = 2000
  /\ backoffLog[Len(backoffLog)] = 1000

TimeoutText == "Timeout of <n>s reached while waiting for task to finish"

FinishedTexts ==
  {"<subject> finished with status: <status>",
   "<subject> finished with status '<status>'. Check logs or artifacts for details."}

RunTexts == {run.setFailed[i].text : i \in 1..Len(run.setFailed)}

\* C20: when run() is over and the monitor returned null, the only failure
\* message is 'Timeout of <N>s reached while waiting for task to finish' with
\* N the timeout input; when it returned failed or cancelled, the failure
\* messages are the two 'finished with status' messages naming that status
\* and output success is 'false'; no run produces both kinds of message.
C20_TimeoutDistinct ==
  /\ run.pc = "done" /\ run.monitored /\ run.inputs.monitor = "null" =>
       /\ Len(run.setFailed) = 1
       /\ run.setFailed[1].text = TimeoutText
       /\ run.setFailed[1].n = run.inputs.timeoutSeconds
       /\ run.success = "unset"
  /\ run.pc = "done" /\ run.monitored
       /\ run.inputs.monitor \in {"failed", "cancelled"} =>
       /\ Len(run.setFailed) = 2
       /\ RunTexts = FinishedTexts
       /\ \A i \in 1..2 : run.setFailed[i].status = run.inputs.monitor
       /\ run.success = "false"
  /\ ~(TimeoutText \in RunTexts /\ RunTexts \cap FinishedTexts # {})

\* a run whose monitor returned null ended with the timeout message
C20_Witness ==
  /\ run.pc = "done"
  /\ run.monitored
  /\ run.inputs.monitor = "null"
  /\ run.inputs.timeoutSeconds = ShortTimeoutSec
  /\ TimeoutText \in RunTexts

\* --------------------------------------------------- claims C21 .. C30

RunOver == run.pc = "done"

\* C21: run() validates before any work and in this order: without
\* REVYL_API_KEY it fails with the missing-key message whatever the ids are;
\* with the key and neither id, with 'Either test-id or workflow-id must be
\* provided'; with the key and both ids, with 'Cannot provide both test-id
\* and workflow-id'.  In these runs setFailed is called with that message
\* only, and no POST and no monitoring is ever started.
C21_ValidationOrder ==
  LET expected ==
        IF ~run.inputs.apiKey THEN MissingKeyText
        ELSE IF ~run.inputs.testId /\ ~run.inputs.workflowId THEN NeitherIdText
        ELSE IF run.inputs.testId /\ run.inputs.workflowId THEN BothIdsText
        ELSE ""
  IN  expected # "" =>
        /\ ~run.posted
        /\ ~run.monitored
        /\ run.task_id = "unset"
        /\ RunOver => /\ Len(run.setFailed) = 1
                      /\ run.setFailed[1].text = expected

\* a run without the API key and without any id ended with the missing-key
\* message
C21_Witness ==
  /\ RunOver
  /\ ~run.inputs.apiKey
  /\ ~run.inputs.testId
  /\ ~run.inputs.workflowId
  /\ run.setFailed[1].text = MissingKeyText

\* C22: when the POST answers a status other than 200, or 200 without a
\* task_id, run() ends with the one setFailed message 'Failed to queue ...'
\* for that case, the task_id output is never set and monitoring never
\* starts.
C22_QueueFailure ==
  run.posted /\ run.inputs.post # "200" =>
    /\ run.task_id = "unset"
    /\ ~run.monitored
    /\ run.pc \in {"catch", "done"}
    /\ RunOver =>
         /\ Len(run.setFailed) = 1
         /\ run.setFailed[1].text =
              IF run.inputs.post = "500" THEN BadStatusText ELSE NoTaskIdText
         /\ run.inputs.post = "500" => run.setFailed[1].n = 500

\* a run whose POST answered 200 without task_id ended
C22_Witness ==
  /\ RunOver
  /\ run.posted
  /\ run.inputs.post = "no task_id"
  /\ run.setFailed[1].text = NoTaskIdText

\* C23: when the job was queued and the monitor returns 'completed', the
\* task_id output was set before monitoring started, run() sets success to
\* 'true' and never calls setFailed; and success is 'true' only in runs
\* whose monitor returned 'completed'.
C23_Success ==
  /\ run.pc = "monitor" \/ run.monitored => run.task_id = taskId
  /\ RunOver /\ run.monitored /\ run.inputs.monitor = "completed" =>
       /\ run.success = "true"
       /\ run.setFailed = <<>>
  /\ run.success = "true" =>
       run.monitored /\ run.inputs.monitor = "completed"

\* a queued run whose monitor returned 'completed' ended
C23_Witness ==
  /\ RunOver
  /\ run.monitored
  /\ run.inputs.monitor = "completed"
  /\ run.success = "true"
  /\ run.task_id = taskId

\* C24: a run whose monitor outcome is failed, cancelled, null or a
\* rejection ends with setFailed called and the success output 'false'.
C24_NeverSuccessful ==
  RunOver /\ run.monitored
    /\ run.inputs.monitor \in {"failed", "cancelled", "null", "reject"} =>
    /\ Len(run.setFailed) >= 1
    /\ run.success = "false"

\* C25: upload-build fails before any HTTP request when neither or both of
\* file-path and expo-url are given or when metadata is not valid JSON; and
\* a run that ended after an Error was thrown has output success 'false',
\* output error-message equal to the error text, and one setFailed call
\* with the same text.
C25_UploadFailure ==
  /\ \/ upload.inputs.filePath = upload.inputs.expoUrl
     \/ upload.inputs.metadata = "invalid"
     => /\ upload.requests = 0
        /\ upload.success # "true"
        /\ upload.pc = "done" => upload.thrown # <<>>
  /\ upload.pc = "done" /\ upload.thrown # <<>> =>
       /\ upload.success = "false"
       /\ upload.errorMessage = upload.thrown[1]
       /\ upload.setFailed = <<upload.thrown[1]>>
  /\ upload.pc = "done" /\ upload.thrown = <<>> =>
       upload.success = "true" /\ upload.setFailed = <<>>

\* an upload with valid ids, a file path and invalid metadata ended in the
\* failure handler without a request
C25_Witness ==
  /\ upload.pc = "done"
  /\ upload.inputs.apiKey
  /\ upload.inputs.required
  /\ upload.inputs.filePath
  /\ ~upload.inputs.expoUrl
  /\ upload.inputs.metadata = "invalid"
  /\ upload.requests = 0
  /\ upload.success = "false"
  /\ upload.setFailed = <<"Invalid JSON in metadata: <message>">>

\* C26 as stated: a session never creates more than MAX_RECONNECT_ATTEMPTS
\* connections
C26_Original == Len(sources) <= MAX_RECONNECT_ATTEMPTS

\* C26: the counter of consecutive failures never exceeds
\* MAX_RECONNECT_ATTEMPTS, and when it reaches it the session has given up
\* (fallback issued, nothing live, no reconnect timer); a session without a
\* successful open creates at most MAX_RECONNECT_ATTEMPTS connections, and
\* each successful open allows at most that many more.
C26_ConsecutiveFailures ==
  /\ reconnectAttempts <= MAX_RECONNECT_ATTEMPTS
  /\ reconnectAttempts = MAX_RECONNECT_ATTEMPTS =>
       /\ giveUpFetches = 1
       /\ Live = {}
       /\ backoffTimers = {}
  /\ opens = 0 => Len(sources) <= MAX_RECONNECT_ATTEMPTS
  /\ Len(sources) <= MAX_RECONNECT_ATTEMPTS * (opens + 1)

\* ten connections failed in a row without any open and the session gave up
C26_Witness ==
  /\ opens = 0
  /\ Len(sources) = MAX_RECONNECT_ATTEMPTS
  /\ reconnectAttempts = MAX_RECONNECT_ATTEMPTS
  /\ giveUpFetches = 1

\* the initial_state listener issued its status query in this step
IssuedInitial == \E f \in fetches' \ fetches : f.kind = "initial"

\* the status query of the initial_state listener was answered in this step
AnsweredInitial == \E f \in fetches \ fetches' : f.kind = "initial"

\* terminal status a status string of the REST answer stands for
TerminalOf(answer) ==
  CASE answer \in {"completed", "SUCCESS"} -> "completed"
    [] answer \in {"Failed", "error", "timeout"} -> "failed"
    [] answer = "Cancelled" -> "cancelled"
    [] OTHER -> "null"

IssuedFinal == \E f \in fetches' \ fetches : f.kind = "final"

\* C28 as stated: a status query is issued only once the reconnect attempts
\* are used up, and at most one query is issued in a session
C28_Original ==
  [][fetchCount' > fetchCount =>
       /\ ReachedMaxAttempts(reconnectAttempts')
       /\ fetchCount = 0]_vars

\* C28 (amended): the status query of the give-up branch is issued exactly
\* when the tenth consecutive failure is handled, and at most once; every
\* other status query comes from the initial_state listener (workflow seen
\* alive, absent from the snapshot) or from the listener of workflow_completed
\* or workflow_failed, and those are issued on an open stream while reconnect
\* attempts remain.
C28_GiveUpQuery ==
  /\ [](/\ giveUpFetches <= 1
        /\ giveUpFetches = 1 <=> reconnectAttempts >= MAX_RECONNECT_ATTEMPTS)
  /\ [][/\ giveUpFetches' > giveUpFetches =>
             /\ reconnectAttempts' = MAX_RECONNECT_ATTEMPTS
             /\ reconnectAttempts = MAX_RECONNECT_ATTEMPTS - 1
             /\ fetchCount' = fetchCount + 1
        /\ (fetchCount' > fetchCount /\ giveUpFetches' = giveUpFetches) =>
             /\ fetchCount' = fetchCount + 1
             /\ IssuedInitial \/ IssuedFinal
             /\ reconnectAttempts < MAX_RECONNECT_ATTEMPTS
             /\ \E c \in DOMAIN sources : sources[c] = "open"
             /\ IssuedFinal =>
                  /\ finalStatus' \in {"completed", "failed"}
                  /\ settlements'[Len(settlements')].via = "event"]_vars

C28_Witness ==
  /\ fetchCount = 2
  /\ giveUpFetches = 1
  /\ reconnectAttempts = MAX_RECONNECT_ATTEMPTS

\* --------------------------------------------------- malformed payloads
\* most events with an unparsable payload in one session
MaxDropped == 1

\* event types whose listener in monitorWorkflow reads event.data
ParsedEvents ==
  {"initial_state", "workflow_started", "workflow_completed",
   "workflow_failed", "workflow_cancelled", "test_started", "test_completed",
   "test_failed", "test_cancelled_with_data", "error"}

\* safeParseEventData: JSON.parse(event.data), or null when it throws
safeParseEventData(payload) == IF payload = "notJson" THEN "null" ELSE payload

\* an event of type ev whose data is not JSON arrives on connection c: the
\* listener returns at `if (!data) return`; an event named "error" is given
\* to onerror first, and its listener then skips the `if (data)` block
MalformedEvent(c, ev) ==
  /\ dispatch = 0
  /\ c \in DOMAIN sources
  /\ sources[c] = "open"
  /\ ev \in ParsedEvents
  /\ Len(dropped) < MaxDropped
  /\ safeParseEventData("notJson") = "null"
  /\ dropped' = Append(dropped, ev)
  /\ IF ev = "error"
     THEN OnErrorHandler(c)
     ELSE UNCHANGED <<reconnectAttempts, currentEventSource,
                      isIntentionallyClosed, reconnectTimeoutHandle, sources,
                      connectionTimeouts, backoffTimers, backoffLog, fetches,
                      fetchCount, giveUpFetches, settlements>>
  /\ UNCHANGED <<now, timeoutMs, started, finalStatus, workflowStarted,
                 outputs, dispatch, opens, activeTests, testsPassed,
                 testsFailed, seen, foreign, outside>>

ParseInit ==
  /\ InitFor({StreamTimeoutSec})
  /\ mt = MtInit
  /\ run = DefaultRun
  /\ upload = DefaultUpload
  /\ resolver = DefaultResolver /\ ws = DefaultWs

ParseNext ==
  \/ Start
  \/ \E c \in DOMAIN sources : OnOpen(c)
  \/ \E c \in DOMAIN sources : OnError(c)
  \/ \E t \in connectionTimeouts : ConnectionTimeoutFire(t)
  \/ \E t \in backoffTimers : ReconnectFire(t)
  \/ \E c \in DOMAIN sources : WorkflowStarted(c)
  \/ \E c \in DOMAIN sources, k \in Children : TestStarted(c, k)
  \/ \E c \in DOMAIN sources, ev \in ParsedEvents : MalformedEvent(c, ev)
  \/ Tick

ParseSpec == ParseInit /\ [][ParseNext]_vars

\* ----------------------------------- fetchFinalWorkflowResults, one call
\* tests.filter(t => t.status === a || t.status === b).length
CountOf(items, wanted) ==
  Cardinality({i \in DOMAIN items : items[i] \in wanted})

\* const task = data.data || data
TaskOf(body) == IF body.data # NoTask THEN body.data ELSE body.top

\* x || 0 of a number field
OrZero(v) == IF v = Undefined THEN 0 ELSE v

\* the catch block: core.warning, then the function returns null
FetchRethrow(r) == [r EXCEPT !.pc = "done", !.threw = TRUE]

FetchCatch(r) == [r EXCEPT !.pc = "done", !.warned = TRUE, !.result = Null]

\* await client.get(url) and the test of res.message.statusCode
FetchGet ==
  /\ resolver.pc = "get"
  /\ resolver' =
       IF resolver.response.get = "rejects" THEN FetchCatch(resolver)
       ELSE IF resolver.response.statusCode = "200"
            THEN [resolver EXCEPT !.pc = "read"]
            ELSE [resolver EXCEPT !.pc = "done", !.result = Null]
  /\ UNCHANGED <<workflowVars, mt, run, upload, ws>>

\* await res.readBody(), JSON.parse(body), the two filters and the return;
\* reading a property of the value null or of a null element throws
FetchRead ==
  /\ resolver.pc = "read"
  /\ LET body == resolver.response.body
         task == TaskOf(body)
     IN resolver' =
          IF body.parse \in {"readError", "syntaxError", "null"}
          THEN FetchCatch(resolver)
          ELSE IF /\ task.tests.kind = "array"
                  /\ \E i \in DOMAIN task.tests.items :
                       task.tests.items[i] = "nullItem"
          THEN FetchCatch(resolver)
          ELSE [resolver EXCEPT
                  !.pc = "done",
                  !.result =
                     [isNull |-> FALSE,
                      status |-> task.status,
                      success |-> task.success,
                      total_tests |-> OrZero(task.total_tests),
                      completed_tests |-> OrZero(task.completed_tests),
                      passed_tests |->
                        IF task.tests.kind = "array"
                        THEN CountOf(task.tests.items, {"passed", "success"})
                        ELSE 0,
                      failed_tests |->
                        IF task.tests.kind = "array"
                        THEN CountOf(task.tests.items, {"failed", "error"})
                        ELSE 0,
                      tests |-> IF task.tests.kind = "absent"
                                THEN [kind |-> "array", items |-> <<>>]
                                ELSE task.tests]]
  /\ UNCHANGED <<workflowVars, mt, run, upload, ws>>

FetchInitial ==
  /\ InitFor({ShortTimeoutSec})
  /\ mt = MtInit
  /\ run = DefaultRun
  /\ upload = DefaultUpload
  /\ resolver \in {ResolverInit(r) : r \in Responses}
  /\ ws = DefaultWs

FetchNext == FetchGet \/ FetchRead

FetchSpec == FetchInitial /\ [][FetchNext]_vars

RECURSIVE Tally(_, _)
\* number of elements of the sequence q that are in the set wanted
Tally(q, wanted) ==
  IF q = <<>> THEN 0
  ELSE (IF Head(q) \in wanted THEN 1 ELSE 0) + Tally(Tail(q), wanted)

\* the call of fetchFinalWorkflowResults got a 200 response whose body parsed
\* to an object with a readable tests field
GoodResponse ==
  /\ resolver.response.get = "ok"
  /\ resolver.response.statusCode = "200"
  /\ resolver.response.body.parse = "object"
  /\ \A i \in DOMAIN TaskOf(resolver.response.body).tests.items :
       TaskOf(resolver.response.body).tests.items[i] # "nullItem"

\* C29: a finished call of fetchFinalWorkflowResults has not thrown; it
\* returned null for a request error, a non-200 response, an unreadable or
\* unparsable body; for a 200 response with a task object it returned the
\* task's status with total and completed counts (0 when missing) and the
\* numbers of passed/success and failed/error items of its tests array.
C29_ResolverTotal ==
  resolver.pc = "done" =>
    /\ ~resolver.threw
    /\ (\/ resolver.response.get = "rejects"
        \/ resolver.response.statusCode # "200"
        \/ resolver.response.body.parse \in {"readError", "syntaxError"})
         => resolver.result = Null
    /\ GoodResponse =>
         LET task == IF resolver.response.body.data = NoTask
                     THEN resolver.response.body.top
                     ELSE resolver.response.body.data
         IN /\ ~resolver.result.isNull
            /\ resolver.result.status = task.status
            /\ resolver.result.total_tests =
                 (IF task.total_tests = Undefined THEN 0 ELSE task.total_tests)
            /\ resolver.result.completed_tests =
                 (IF task.completed_tests = Undefined THEN 0
                  ELSE task.completed_tests)
            /\ resolver.result.passed_tests =
                 Tally(task.tests.items, {"passed", "success"})
            /\ resolver.result.failed_tests =
                 Tally(task.tests.items, {"failed", "error"})

C29_Witness ==
  /\ resolver.pc = "done"
  /\ GoodResponse
  /\ resolver.response.body.data # NoTask
  /\ resolver.result.status = "completed"
  /\ resolver.result.total_tests = 3
  /\ resolver.result.completed_tests = 0
  /\ resolver.result.passed_tests = 1
  /\ resolver.result.failed_tests = 1

\* C30 as stated: handling an event whose payload does not parse, whatever
\* its type, leaves the session state unchanged (result, attempt counter,
\* child tracker, counters, timers, connection), so the connection it
\* arrived on stays open.
C30_Original ==
  [][dropped' # dropped =>
       /\ UNCHANGED sessionVars
       /\ currentEventSource' \in DOMAIN sources'
       /\ sources'[currentEventSource'] = "open"]_vars

\* --------------------------------------------------- claims C31 .. C38

\* C31 as stated: once the session has settled, no deadline timer and no
\* backoff timer of the session remains armed, the deadline timers of earlier
\* connection attempts included.
C31_NoTimerLeft ==
  Settled => (connectionTimeouts = {} /\ backoffTimers = {})

\* C32 as stated: the reconnect backoff timer is armed with min(backoff
\* delay, remaining budget), so no armed backoff timer expires after the
\* deadline.
C32_Original == \A t \in backoffTimers : t.at <= timeoutMs

\* C32 (amended): only the deadline timer of a connection attempt is clipped:
\* it is armed with the remaining budget and expires exactly at the deadline.
\* The backoff timer is armed, before the deadline, with the whole backoff
\* delay min(30000, 1000 * 2^n) whatever budget remains; a backoff timer that
\* reaches past the deadline never fires, because a deadline timer is armed
\* beside it and cancels it at the deadline.
C32_Clipping ==
  /\ \A t \in connectionTimeouts : t.at = timeoutMs
  /\ \A t \in backoffTimers :
       /\ reconnectAttempts \in 1..Len(ExpectedDelays)
       /\ t.delay = ExpectedDelays[reconnectAttempts]
       /\ t.at - t.delay < timeoutMs
       /\ now <= t.at
       /\ t.at > timeoutMs =>
            (now <= timeoutMs /\ \E d \in connectionTimeouts : d.at < t.at)

C32_Witness ==
  /\ ~Settled
  /\ now = 3000
  /\ timeoutMs = 1000 * ShortTimeoutSec
  /\ \E t \in backoffTimers : t.delay = 4000 /\ t.at > timeoutMs

\* C33 as stated: after the session resolved null at the deadline, no step
\* (a late fallback answer included) changes the final status or an output.
C33_AbandonedAfterDeadline ==
  [][(Settled /\ settlements[1].via = "deadline") =>
       UNCHANGED <<finalStatus, outputs>>]_vars

\* C34 as stated: the count outputs triggered by a terminal event of the
\* monitored task are written before the session resolves, so once the
\* session has resolved by that event they no longer change.
C34_CountsAtResolution ==
  [][(Settled /\ settlements[1].via = "event") =>
       outputs'.counts = outputs.counts]_vars

\* C35: a connection attempt is opened only strictly before the deadline;
\* createConnection called at or after the deadline opens nothing, closes
\* what is open and resolves the session null.
C35_NoLateConnection ==
  [][/\ Len(sources') > Len(sources) =>
          /\ now < timeoutMs
          /\ Len(sources') = Len(sources) + 1
     /\ (/\ Len(settlements') > Len(settlements)
         /\ settlements'[Len(settlements')].via = "createConnection") =>
          /\ now >= timeoutMs
          /\ Len(sources') = Len(sources)
          /\ \A c \in DOMAIN sources' : sources'[c] = "closed"
          /\ backoffTimers' = {}
          /\ settlements'[Len(settlements')].kind = "resolve"
          /\ settlements'[Len(settlements')].value = "null"]_vars

C35_Witness ==
  /\ Len(settlements) = 1
  /\ settlements[1].via = "createConnection"
  /\ settlements[1].value = "null"
  /\ timeoutMs > 0
  /\ now = timeoutMs
  /\ Len(sources) = settlements[1].conns
  /\ Len(sources) > 0

\* C36 as stated: in monitorTest, while the report link of a received
\* terminal event is being generated, whatever settles the session settles
\* it with the status of such an event: never null (timeout), never a
\* rejection, never another status.
C36_TerminalEventWins ==
  [][(mt.pending # {} /\ mt.settlements = <<>> /\ mt.settlements' # <<>>) =>
       /\ mt.settlements'[1].kind = "resolve"
       /\ mt.settlements'[1].value \in mt.pending]_vars

\* C37 as stated: at every step in which monitorWorkflow resolves with
\* completed, failed or cancelled, the outputs agree with the result: status
\* is the resolved value and success is 'true' exactly for completed.
C37_OutputsAgree ==
  [][(/\ Len(settlements') > Len(settlements)
      /\ settlements'[Len(settlements')].kind = "resolve"
      /\ settlements'[Len(settlements')].value \in
           {"completed", "failed", "cancelled"}) =>
       /\ outputs'.status = settlements'[Len(settlements')].value
       /\ outputs'.success =
            (IF settlements'[Len(settlements')].value = "completed"
             THEN "true" ELSE "false")]_vars

\* ------------------------------------------------- waitForStart, one call
\* most child test_started events delivered to one waitForStart call
MaxWsChildren == 2

\* timeoutSeconds * 1000 of the waitForStart call
WsTimeoutMs == 1000 * ShortTimeoutSec

\* resolve({started, ...}): flag is the extra field of the result object
\* (timedOut, sseError, completed) or "none"
WsSettle(w, isStarted, flag, via) ==
  [w EXCEPT !.settlements =
     Append(@, [kind |-> "resolve", started |-> isStarted, flag |-> flag,
                via |-> via, at |-> w.now])]

\* eventSource.close(); clearTimeout(timeoutHandle)
WsClose(w) == [w EXCEPT !.eventSource = "closed", !.timeoutHandle = FALSE]

\* workflowInfo?.totalTests || 1
WsNeeded(w) ==
  IF w.workflowInfo = "set" /\ w.totalTests > 0 THEN w.totalTests ELSE 1

WsOnOpen ==
  /\ ws.eventSource = "connecting"
  /\ ws' = [ws EXCEPT !.eventSource = "open"]
  /\ UNCHANGED <<workflowVars, mt, run, upload, resolver>>

\* eventSource.onerror
WsOnError ==
  /\ ws.eventSource # "closed"
  /\ ws' = WsSettle(WsClose(ws), TRUE, "sseError", "onerror")
  /\ UNCHANGED <<workflowVars, mt, run, upload, resolver>>

\* the callback of timeoutHandle
WsTimeoutFire ==
  /\ ws.timeoutHandle
  /\ ws.now >= WsTimeoutMs
  /\ ws' = WsSettle(WsClose(ws), FALSE, "timedOut", "timeout")
  /\ UNCHANGED <<workflowVars, mt, run, upload, resolver>>

\* initial_state whose snapshot holds the job (running_tests for a test,
\* running_workflows for a workflow) and kids of its child tests
WsInitialState(kids) ==
  /\ ws.eventSource = "open"
  /\ kids \in 0..MaxWsChildren
  /\ ws.mode = "test" => kids = 0
  /\ ws' = WsSettle(WsClose([ws EXCEPT !.childTests = @ + kids,
                                       !.seen = Append(@, "initial_state")]),
                    TRUE, "none", "initial_state")
  /\ UNCHANGED <<workflowVars, mt, run, upload, resolver>>

\* test_started whose test.task_id is the job (test mode)
WsTestStarted ==
  /\ ws.eventSource = "open"
  /\ ws.mode = "test"
  /\ ws' = WsSettle(WsClose([ws EXCEPT !.seen = Append(@, "started")]),
                    TRUE, "none", "test_started")
  /\ UNCHANGED <<workflowVars, mt, run, upload, resolver>>

\* test_started of a child test of the job (workflow mode)
WsChildStarted ==
  /\ ws.eventSource = "open"
  /\ ws.mode = "workflow"
  /\ ws.childTests < MaxWsChildren
  /\ ws' = IF ws.childTests + 1 >= WsNeeded(ws)
           THEN WsSettle(WsClose([ws EXCEPT !.childTests = @ + 1]),
                         TRUE, "none", "child_started")
           ELSE [ws EXCEPT !.childTests = @ + 1]
  /\ UNCHANGED <<workflowVars, mt, run, upload, resolver>>

\* workflow_started for the job; total is workflow.task.total_tests, 0 when
\* it is missing
WsWorkflowStarted(total) ==
  /\ ws.eventSource = "open"
  /\ ws.mode = "workflow"
  /\ ws.workflowInfo = "null"
  /\ total \in 0..(MaxWsChildren + 1)
  /\ ws' = [ws EXCEPT !.workflowInfo = "set", !.totalTests = total,
                      !.seen = Append(@, "started")]
  /\ UNCHANGED <<workflowVars, mt, run, upload, resolver>>

\* one of the completionEvents with the job's task_id
WsCompletion ==
  /\ ws.eventSource = "open"
  /\ ws' = WsSettle(WsClose([ws EXCEPT !.seen = Append(@, "completed")]),
                    TRUE, "completed", "completion")
  /\ UNCHANGED <<workflowVars, mt, run, upload, resolver>>

\* time passes until the timeout timer is due
WsTick ==
  /\ ws.timeoutHandle
  /\ ws.now < WsTimeoutMs
  /\ ws' = [ws EXCEPT !.now = WsTimeoutMs]
  /\ UNCHANGED <<workflowVars, mt, run, upload, resolver>>

WsInitial ==
  /\ InitFor({ShortTimeoutSec})
  /\ mt = MtInit
  /\ run = DefaultRun
  /\ upload = DefaultUpload
  /\ resolver = DefaultResolver
  /\ ws \in {WsInit(m) : m \in {"test", "workflow"}}

WsNext ==
  \/ WsOnOpen
  \/ WsOnError
  \/ WsTimeoutFire
  \/ \E kids \in 0..MaxWsChildren : WsInitialState(kids)
  \/ WsTestStarted
  \/ WsChildStarted
  \/ \E total \in 0..(MaxWsChildren + 1) : WsWorkflowStarted(total)
  \/ WsCompletion
  \/ WsTick

WsSpec == WsInitial /\ [][WsNext]_vars

\* C38 as stated: waitForStart settles at most once and only by resolving;
\* a settled call has closed the connection and disarmed the timer; once the
\* job was seen (in initial_state, started or completed) the call never
\* resolves started = false; a transport error resolves started = true with
\* sseError; started = false comes only from the timeout, with timedOut, and
\* only when the job was not seen before.
C38_WaitForStart ==
  /\ Len(ws.settlements) <= 1
  /\ \A i \in DOMAIN ws.settlements :
       /\ ws.settlements[i].kind = "resolve"
       /\ ws.eventSource = "closed"
       /\ ~ws.timeoutHandle
       /\ ws.settlements[i].via = "onerror" =>
            (ws.settlements[i].started /\ ws.settlements[i].flag = "sseError")
       /\ ~ws.settlements[i].started <=> ws.settlements[i].via = "timeout"
       /\ ws.settlements[i].via = "timeout" =>
            (ws.settlements[i].flag = "timedOut" /\ ws.seen = <<>>)
  /\ (ws.seen # <<>> /\ ws.settlements # <<>>) => ws.settlements[1].started

====
